---- MODULE Spec2Model ----
(***************************************************************************)
(* Model of VerificationBot (src/main.py): the session store               *)
(* pending_verifications, the message ledger user_messages, and the        *)
(* coroutines that run on the asyncio event loop.                          *)
(*                                                                         *)
(* A coroutine is a task record; its pc names the platform call it is      *)
(* awaiting.  One action is one atomic segment of a coroutine: the awaited *)
(* call returns (success or TelegramAPIError, chosen freely), its effect   *)
(* on the chat platform is applied, the Python code runs up to the next    *)
(* await and the next call is issued (recorded in lastCall).  Other tasks  *)
(* interleave only between such segments, as on the event loop.            *)
(*                                                                         *)
(* The reasons passed to reject_user are written in English: "incorrect    *)
(* answer" (line 216), "rejected by administrator" (line 242) and          *)
(* "verification window exceeded" (line 295).                              *)
(***************************************************************************)
EXTENDS Integers, Sequences, FiniteSets, Bags, TLC

\* ---------------------------------------------------------------- bounds
MaxJoins == 2
MaxAnswers == 1
MaxPresses == 1
MaxMessages == 2
MaxLeaves == 2
MaxToggles == 1
MaxAdmits == 2
MaxEvents == 3
MaxTime == 400
TickUnit == 100
MaxLate == 2

\* ------------------------------------------------------- program constants
verification_timeout == 300
ban_notification_time == 180
refresh_interval == 10

\* ------------------------------------------------------------- identities
BotId == 0
NoUser == 99    \* a message without from_user
Participants == {1, 2}
Chats == {1, 2}
OptionIds == 0..2

VARIABLES
    pending_verifications,  \* user_id -> verification_data (a Python dict)
    user_messages,          \* user_id -> list of message ids (a Python dict)
    ban_notifications,      \* chat_id -> message id (a Python dict)
    htest_enabled,
    fastout_enabled,
    tasks,                  \* coroutines in flight
    now,                    \* the clock, in seconds
    perm,                   \* platform: "default", "restricted", or "removed" from the chat
    banned,                 \* platform: participant is banned from the chat
    polls,                  \* platform: live challenge messages <<chat, message id, user>>
    nextMsg,                \* platform: next message id of each chat
    nextPoll,               \* platform: next poll id
    resolved,               \* history: poll id -> number of resolutions that consumed its session
    evcount,                \* history: number of events of each kind delivered so far
    tracked,                \* history: <<chat, user, message id>> of every tracked message
    lastAct,                \* history: the step just taken, with its inputs
    lastCall                \* history: the platform call issued by the step just taken

vars == <<pending_verifications, user_messages, ban_notifications, htest_enabled,
          fastout_enabled, tasks, now, perm, banned, polls, nextMsg, nextPoll,
          resolved, evcount, tracked, lastAct, lastCall>>

stores == <<pending_verifications, user_messages, ban_notifications>>
platform == <<perm, banned, polls, nextMsg, nextPoll>>

\* ------------------------------------------------------------ dict helpers
Has(d, k) == k \in DOMAIN d
Put(d, k, v) == [x \in DOMAIN d \cup {k} |-> IF x = k THEN v ELSE d[x]]
Del(d, k) == [x \in DOMAIN d \ {k} |-> d[x]]
EmptyDict == [x \in {} |-> 0]

NoData == [chat_id |-> 0, poll_id |-> 0, message_id |-> 0, correct_option_id |-> 0,
           deadline |-> 0, user |-> 0]

NoCall == [op |-> "none", chat |-> 0, arg |-> 0, reason |-> ""]
Call(op, c, a) == [op |-> op, chat |-> c, arg |-> a, reason |-> ""]
\* An update as the dispatcher hands it to a handler: x and y are its further inputs
Act(name, u, c) == [name |-> name, user |-> u, chat |-> c, x |-> 0, y |-> 0,
                    status |-> "", action |-> ""]
ActX(name, u, c, x) == [Act(name, u, c) EXCEPT !.x = x]
\* A coroutine step whose awaited call returned `status`
Ret(name, u, c, ok) == [Act(name, u, c) EXCEPT !.status = IF ok THEN "ok" ELSE "error"]
NoAct == Act("", 0, 0)

\* The calls that change the chat: the ones a resolution is made of.
MutatingOps == {"restrict", "ban", "unban", "delete", "send"}

\* ------------------------------------------------------------------ tasks
\* The coroutines in flight are a bag: two coroutines at the same place with the
\* same locals are two tasks.  Two fields are history, not locals: `own` is the
\* poll id of the session a display refresher was started for, `late` the number
\* of edits it has issued while that session was no longer the stored one.
BlankTask == [pc |-> "", user |-> 0, chat |-> 0, data |-> NoData,
              reason |-> "", via |-> "", wake |-> 0, action |-> "", presser |-> 0,
              arg |-> "", mid |-> 0, lst |-> <<>>, idx |-> 0, attached |-> FALSE,
              own |-> 0, late |-> 0]

Add(ts, t) == ts (+) SetToBag({t})
Rm(ts, t) == ts (-) SetToBag({t})

\* asyncio.create_task, or a handler the dispatcher starts for an update
Spawn(ts, rec) == Add(ts, rec)
\* f applied to every task
MapTasks(ts, f(_)) ==
    LET img == {f(t) : t \in DOMAIN ts}
    IN  [r \in img |-> BagCardinality([t \in {x \in DOMAIN ts : f(x) = r} |-> ts[t]])]

Init ==
    /\ pending_verifications = EmptyDict
    /\ user_messages = EmptyDict
    /\ ban_notifications = EmptyDict
    /\ htest_enabled = TRUE
    /\ fastout_enabled = TRUE
    /\ tasks = EmptyBag
    /\ now = 0
    /\ perm = [c \in Chats, u \in Participants |-> "default"]
    /\ banned = [c \in Chats, u \in Participants |-> FALSE]
    /\ polls = {}
    /\ nextMsg = [c \in Chats |-> 1]
    /\ nextPoll = 1
    /\ resolved = EmptyDict
    /\ tracked = {}
    /\ evcount = [join |-> 0, answer |-> 0, press |-> 0, message |-> 0, left |-> 0,
                  toggle |-> 0, admit |-> 0]
    /\ lastAct = Act("init", 0, 0)
    /\ lastCall = NoCall

\* The updates delivered so far, and the guard that bounds them
Delivered == evcount.join + evcount.answer + evcount.press + evcount.message
             + evcount.left + evcount.toggle + evcount.admit
Deliver(kind, max) ==
    /\ evcount[kind] < max
    /\ Delivered < MaxEvents
    /\ evcount' = [evcount EXCEPT ![kind] = @ + 1]

\* ------------------------------------------------------ platform effects
RemoveMessage(ps, c, m) == {p \in ps : ~(p[1] = c /\ p[2] = m)}

\* ------------------------------------------- approve_user and reject_user
\* What the caller of approve_user / reject_user does when the call returns:
\* handle_reaction goes on to callback.answer, the other callers are finished.
Return(rest, self) ==
    IF self.via = "admin"
    THEN [ts |-> Add(rest, [BlankTask EXCEPT !.pc = "hr_answer", !.chat = self.chat]),
          call |-> Call("answer_callback", self.chat, 0)]
    ELSE [ts |-> rest, call |-> NoCall]

\* A pop that reads the entry and leaves it in the store
PopKeeps(d, k) == [dict |-> d, value |-> IF Has(d, k) THEN d[k] ELSE NoData]

\* self.pending_verifications.pop(user_id, None)
Pop(d, k) == [dict |-> Del(d, k), value |-> IF Has(d, k) THEN d[k] ELSE NoData]

Bump(r, p) == IF Has(r, p) THEN [r EXCEPT ![p] = @ + 1] ELSE Put(r, p, 1)

\* The part of verification_data that approve_user / reject_user read after the pop
Read(vd) == [NoData EXCEPT !.chat_id = vd.chat_id, !.message_id = vd.message_id,
                           !.user = vd.user]

\* An approve_user without the test of what the pop returned
approve_user_unguarded(rest, self, u) ==
    LET popped == Pop(pending_verifications, u)
        vd == popped.value
    IN  /\ pending_verifications' = popped.dict
        /\ tasks' = Add(rest, [self EXCEPT !.pc = "ap_restrict", !.user = u,
                                           !.data = Read(vd)])
        /\ lastCall' = Call("restrict", vd.chat_id, u)
        /\ resolved' = IF vd = NoData THEN resolved ELSE Bump(resolved, vd.poll_id)

\* approve_user up to its first await
approve_user(rest, self, u) ==
    LET popped == Pop(pending_verifications, u)
        vd == popped.value
    IN  /\ pending_verifications' = popped.dict
        /\ IF vd = NoData
           THEN /\ tasks' = Return(rest, self).ts
                /\ lastCall' = Return(rest, self).call
                /\ resolved' = resolved
           ELSE /\ tasks' = Add(rest, [self EXCEPT !.pc = "ap_restrict", !.user = u,
                                                   !.data = Read(vd)])
                /\ lastCall' = Call("restrict", vd.chat_id, u)
                /\ resolved' = Bump(resolved, vd.poll_id)

\* approve_user called on its own, as a test of the method calls it
approve_user_call(u) ==
    /\ Deliver("admit", MaxAdmits)
    /\ lastAct' = Act("approve_user", u, 0)
    /\ approve_user(tasks, [BlankTask EXCEPT !.via = "direct"], u)
    /\ UNCHANGED <<tracked, user_messages, ban_notifications, htest_enabled, fastout_enabled, now,
                   platform>>

\* reject_user up to its first await
reject_user(rest, self, u, reason) ==
    LET popped == Pop(pending_verifications, u)
        vd == popped.value
    IN  /\ pending_verifications' = popped.dict
        /\ IF vd = NoData
           THEN /\ tasks' = Return(rest, self).ts
                /\ lastCall' = Return(rest, self).call
                /\ resolved' = resolved
           ELSE /\ tasks' = Add(rest, [self EXCEPT !.pc = "rj_ban", !.user = u,
                                                   !.data = Read(vd), !.reason = reason])
                /\ lastCall' = Call("ban", vd.chat_id, u)
                /\ resolved' = Bump(resolved, vd.poll_id)

\* --------------------------------------------------------- new member
\* handle_new_member up to its first await
handle_new_member(c, u) ==
    /\ Deliver("join", MaxJoins)
    /\ now + verification_timeout <= MaxTime
    /\ lastAct' = Act("handle_new_member", u, c)
    /\ IF ~htest_enabled \/ u = BotId
       THEN /\ tasks' = tasks
            /\ lastCall' = NoCall
       ELSE /\ tasks' = Spawn(tasks, [BlankTask EXCEPT !.pc = "nm_restrict", !.user = u,
                                                       !.chat = c])
            /\ lastCall' = Call("restrict", c, u)
    /\ UNCHANGED <<tracked, stores, htest_enabled, fastout_enabled, now, platform, resolved>>

\* restrict_chat_member(RESTRICTED_PERMISSIONS) returns; create_verification_poll
\* runs up to send_poll, having drawn correct_option_id
NmRestrict(t) ==
    /\ t.pc = "nm_restrict"
    /\ \E ok \in BOOLEAN :
         /\ lastAct' = Ret("NmRestrict", t.user, t.chat, ok)
         /\ IF ok
            THEN \E k \in OptionIds :
                   /\ perm' = [perm EXCEPT ![t.chat, t.user] = "restricted"]
                   /\ tasks' = Add(Rm(tasks, t),
                                   [t EXCEPT !.pc = "nm_send_poll",
                                             !.data = [NoData EXCEPT
                                                         !.correct_option_id = k]])
                   /\ lastCall' = Call("send_poll", t.chat, t.user)
            ELSE /\ perm' = perm
                 /\ tasks' = Rm(tasks, t)
                 /\ lastCall' = NoCall
    /\ UNCHANGED <<tracked, stores, htest_enabled, fastout_enabled, now, banned, polls, nextMsg,
                   nextPoll, resolved, evcount>>

\* A session started with its timeout timer alone
SessionTimersNoRefresher(ts, u) ==
    Spawn(ts, [BlankTask EXCEPT !.pc = "vt_sleep", !.user = u,
                                !.wake = now + verification_timeout])

\* The two timers create_verification_poll starts for a session
SessionTimers(ts, u) ==
    Spawn(Spawn(ts, [BlankTask EXCEPT !.pc = "vt_sleep", !.user = u,
                                      !.wake = now + verification_timeout]),
          [BlankTask EXCEPT !.pc = "rf_sleep", !.user = u, !.wake = now,
                            !.own = nextPoll])

\* The session stored whether or not send_poll raised
StoreSessionAlways(ok, t) ==
    Put(pending_verifications, t.user,
        [chat_id |-> t.chat, poll_id |-> nextPoll, message_id |-> nextMsg[t.chat],
         correct_option_id |-> t.data.correct_option_id,
         deadline |-> now + verification_timeout, user |-> t.user])

\* self.pending_verifications[user.id] = {...}, reached when send_poll did not raise
StoreSession(ok, t) ==
    IF ok
    THEN Put(pending_verifications, t.user,
             [chat_id |-> t.chat, poll_id |-> nextPoll, message_id |-> nextMsg[t.chat],
              correct_option_id |-> t.data.correct_option_id,
              deadline |-> now + verification_timeout, user |-> t.user])
    ELSE pending_verifications

\* send_poll returns: the session is stored and its timers are started
NmSendPoll(t) ==
    /\ t.pc = "nm_send_poll"
    /\ lastCall' = NoCall
    /\ \E ok \in BOOLEAN :
         /\ lastAct' = Ret("NmSendPoll", t.user, t.chat, ok)
         /\ pending_verifications' = StoreSession(ok, t)
         /\ IF ok
            THEN /\ polls' = polls \cup {<<t.chat, nextMsg[t.chat], t.user>>}
                 /\ nextMsg' = [nextMsg EXCEPT ![t.chat] = @ + 1]
                 /\ nextPoll' = nextPoll + 1
                 /\ tasks' = SessionTimers(Rm(tasks, t), t.user)
            ELSE /\ tasks' = Rm(tasks, t)
                 /\ UNCHANGED <<polls, nextMsg, nextPoll>>
    /\ UNCHANGED <<tracked, user_messages, ban_notifications, htest_enabled, fastout_enabled, now,
                   perm, banned, resolved, evcount>>

\* ------------------------------------------------------------- timers
\* verification_timeout: the sleep is over
verification_timeout_fire(t) ==
    /\ t.pc = "vt_sleep"
    /\ now >= t.wake
    /\ lastAct' = NoAct
    /\ IF Has(pending_verifications, t.user)
       THEN reject_user(Rm(tasks, t), [t EXCEPT !.wake = 0], t.user,
                        "verification window exceeded")
       ELSE /\ tasks' = Rm(tasks, t)
            /\ lastCall' = NoCall
            /\ UNCHANGED <<pending_verifications, resolved>>
    /\ UNCHANGED <<tracked, user_messages, ban_notifications, htest_enabled, fastout_enabled, now,
                   platform, evcount>>

\* The late edits of the refresher t, counting the one it is about to issue
Late(t) ==
    IF pending_verifications[t.user].poll_id = t.own \/ t.late = MaxLate
    THEN t.late ELSE t.late + 1

\* update_timer_display: one pass from the while test to the edit call
update_timer_display(t) ==
    /\ t.pc = "rf_sleep"
    /\ now >= t.wake
    /\ lastAct' = NoAct
    /\ IF /\ Has(pending_verifications, t.user)
          /\ pending_verifications[t.user].deadline - now > 0
       THEN /\ tasks' = Add(Rm(tasks, t), [t EXCEPT !.pc = "rf_edit", !.wake = 0,
                                    !.data = Read(pending_verifications[t.user]),
                                    !.late = Late(t)])
            /\ lastCall' = Call("edit", pending_verifications[t.user].chat_id,
                                pending_verifications[t.user].message_id)
       ELSE /\ tasks' = Rm(tasks, t)
            /\ lastCall' = NoCall
    /\ UNCHANGED <<tracked, stores, htest_enabled, fastout_enabled, now, platform, resolved,
                   evcount>>

EditOutcomes == {"ok", "not modified", "bad request", "api error"}

\* A refresher that goes on after any failure of the edit
ContinuesAlways(r) == TRUE

\* The outcomes after which the loop sleeps and goes on: the edit succeeded, or
\* raised TelegramBadRequest with "message is not modified"
Continues(r) == r \in {"ok", "not modified"}

\* edit_message_reply_markup returns
RfEdit(t) ==
    /\ t.pc = "rf_edit"
    /\ lastCall' = NoCall
    /\ \E r \in EditOutcomes :
         /\ lastAct' = [Act("RfEdit", t.user, 0) EXCEPT !.status = r]
         /\ IF Continues(r)
            THEN tasks' = Add(Rm(tasks, t), [t EXCEPT !.pc = "rf_sleep",
                                                      !.wake = now + refresh_interval,
                                                      !.data = NoData])
            ELSE tasks' = Rm(tasks, t)
    /\ UNCHANGED <<tracked, stores, htest_enabled, fastout_enabled, now, platform, resolved,
                   evcount>>

\* Time passes.  The program reads the clock only to compare it with a deadline or
\* the end of a sleep, so time is let pass only while some task sleeps.
Sleeping(t) == t.pc \in {"vt_sleep", "rf_sleep", "rb_sleep"} /\ t.wake > now

Tick ==
    /\ now < MaxTime
    /\ \E t \in DOMAIN tasks : Sleeping(t)
    /\ now' = now + TickUnit
    /\ lastAct' = NoAct
    /\ lastCall' = NoCall
    /\ UNCHANGED <<tracked, stores, htest_enabled, fastout_enabled, tasks, platform, resolved,
                   evcount>>

\* ------------------------------------------- approve_user, after the pop
\* A step of a resolution: the awaited call returns; on success the task goes on to
\* the call `next` (pc `pc`), on TelegramAPIError the except clause logs and the
\* function returns.
Proceed(t, ok, pc, next) ==
    IF ok
    THEN /\ tasks' = Add(Rm(tasks, t), [t EXCEPT !.pc = pc])
         /\ lastCall' = next
    ELSE /\ tasks' = Return(Rm(tasks, t), t).ts
         /\ lastCall' = Return(Rm(tasks, t), t).call

\* restrict_chat_member(DEFAULT_PERMISSIONS) returns
ApRestrict(t) ==
    /\ t.pc = "ap_restrict"
    /\ lastAct' = NoAct
    /\ \E ok \in BOOLEAN :
         /\ perm' = IF ok THEN [perm EXCEPT ![t.data.chat_id, t.user] = "default"] ELSE perm
         /\ Proceed(t, ok, "ap_delete", Call("delete", t.data.chat_id, t.data.message_id))
    /\ UNCHANGED <<tracked, stores, htest_enabled, fastout_enabled, now, banned, polls, nextMsg,
                   nextPoll, resolved, evcount>>

\* delete_message(challenge) returns
ApDelete(t) ==
    /\ t.pc = "ap_delete"
    /\ lastAct' = NoAct
    /\ \E ok \in BOOLEAN :
         /\ polls' = IF ok THEN RemoveMessage(polls, t.data.chat_id, t.data.message_id)
                      ELSE polls
         /\ Proceed(t, ok, "ap_send", Call("send", t.data.chat_id, t.user))
    /\ UNCHANGED <<tracked, stores, htest_enabled, fastout_enabled, now, perm, banned, nextMsg,
                   nextPoll, resolved, evcount>>

\* send_message(success notice) returns; approve_user is over
ApSend(t) ==
    /\ t.pc = "ap_send"
    /\ lastAct' = NoAct
    /\ \E ok \in BOOLEAN :
         nextMsg' = IF ok THEN [nextMsg EXCEPT ![t.data.chat_id] = @ + 1] ELSE nextMsg
    /\ tasks' = Return(Rm(tasks, t), t).ts
    /\ lastCall' = Return(Rm(tasks, t), t).call
    /\ UNCHANGED <<tracked, stores, htest_enabled, fastout_enabled, now, perm, banned, polls,
                   nextPoll, resolved, evcount>>

\* -------------------------------------------- reject_user, after the pop
\* ban_chat_member returns
RjBan(t) ==
    /\ t.pc = "rj_ban"
    /\ lastAct' = NoAct
    /\ \E ok \in BOOLEAN :
         /\ banned' = IF ok THEN [banned EXCEPT ![t.data.chat_id, t.user] = TRUE] ELSE banned
         /\ perm' = IF ok THEN [perm EXCEPT ![t.data.chat_id, t.user] = "removed"] ELSE perm
         /\ Proceed(t, ok, "rj_unban", Call("unban", t.data.chat_id, t.user))
    /\ UNCHANGED <<tracked, stores, htest_enabled, fastout_enabled, now, polls, nextMsg,
                   nextPoll, resolved, evcount>>

\* unban_chat_member returns
RjUnban(t) ==
    /\ t.pc = "rj_unban"
    /\ lastAct' = NoAct
    /\ \E ok \in BOOLEAN :
         /\ banned' = IF ok THEN [banned EXCEPT ![t.data.chat_id, t.user] = FALSE] ELSE banned
         /\ Proceed(t, ok, "rj_delete", Call("delete", t.data.chat_id, t.data.message_id))
    /\ UNCHANGED <<tracked, stores, htest_enabled, fastout_enabled, now, perm, polls, nextMsg,
                   nextPoll, resolved, evcount>>

\* delete_message(challenge) returns
RjDelete(t) ==
    /\ t.pc = "rj_delete"
    /\ lastAct' = NoAct
    /\ \E ok \in BOOLEAN :
         /\ polls' = IF ok THEN RemoveMessage(polls, t.data.chat_id, t.data.message_id)
                      ELSE polls
         /\ Proceed(t, ok, "rj_send",
                    [Call("send", t.data.chat_id, t.user) EXCEPT !.reason = t.reason])
    /\ UNCHANGED <<tracked, stores, htest_enabled, fastout_enabled, now, perm, banned, nextMsg,
                   nextPoll, resolved, evcount>>

\* A deletion of the notice that does not wait
NoticeTimerAtOnce(c, m) ==
    [BlankTask EXCEPT !.pc = "rb_sleep", !.chat = c, !.mid = m, !.wake = now]

\* remove_ban_notification(chat_id, message_id) as created by reject_user: it
\* sleeps ban_notification_time first
NoticeTimer(c, m) ==
    [BlankTask EXCEPT !.pc = "rb_sleep", !.chat = c, !.mid = m,
                      !.wake = now + ban_notification_time]

\* send_message(removal notice) returns: the notice is remembered and its delayed
\* deletion is started; reject_user is over
RjSend(t) ==
    /\ t.pc = "rj_send"
    /\ lastAct' = NoAct
    /\ \E ok \in BOOLEAN :
         IF ok
         THEN /\ nextMsg' = [nextMsg EXCEPT ![t.data.chat_id] = @ + 1]
              /\ ban_notifications' =
                    Put(ban_notifications, t.data.chat_id, nextMsg[t.data.chat_id])
              /\ tasks' = Spawn(Return(Rm(tasks, t), t).ts,
                                NoticeTimer(t.data.chat_id, nextMsg[t.data.chat_id]))
         ELSE /\ tasks' = Return(Rm(tasks, t), t).ts
              /\ UNCHANGED <<nextMsg, ban_notifications>>
    /\ lastCall' = Return(Rm(tasks, t), t).call
    /\ UNCHANGED <<tracked, pending_verifications, user_messages, htest_enabled, fastout_enabled,
                   now, perm, banned, polls, nextPoll, resolved, evcount>>

\* remove_ban_notification: the sleep is over and delete_message is issued
remove_ban_notification(t) ==
    /\ t.pc = "rb_sleep"
    /\ now >= t.wake
    /\ lastAct' = NoAct
    /\ tasks' = Add(Rm(tasks, t), [t EXCEPT !.pc = "rb_delete"])
    /\ lastCall' = Call("delete", t.chat, t.mid)
    /\ UNCHANGED <<tracked, stores, htest_enabled, fastout_enabled, now, platform, resolved,
                   evcount>>

\* delete_message(notice) returns
RbDelete(t) ==
    /\ t.pc = "rb_delete"
    /\ lastAct' = NoAct
    /\ lastCall' = NoCall
    /\ tasks' = Rm(tasks, t)
    /\ \E ok \in BOOLEAN :
         ban_notifications' = IF ok THEN Del(ban_notifications, t.chat)
                              ELSE ban_notifications
    /\ UNCHANGED <<tracked, pending_verifications, user_messages, htest_enabled, fastout_enabled,
                   now, platform, resolved, evcount>>

\* ------------------------------------------------------ challenge answer
\* Any answer of the participant taken for an answer to the session's challenge
CorrelatesAny(pid, vd) == TRUE

\* poll_answer.poll_id == verification_data["poll_id"]
Correlates(pid, vd) == pid = vd.poll_id

\* handle_poll_answer: it has no await of its own before approve_user / reject_user
handle_poll_answer(u, pid, opt) ==
    /\ Deliver("answer", MaxAnswers)
    /\ lastAct' = [ActX("handle_poll_answer", u, 0, pid) EXCEPT !.y = opt]
    /\ LET self == [BlankTask EXCEPT !.user = u, !.via = "answer"]
       IN  IF ~Has(pending_verifications, u)
           THEN /\ lastCall' = NoCall
                /\ UNCHANGED <<pending_verifications, tasks, resolved>>
           ELSE IF ~Correlates(pid, pending_verifications[u])
           THEN /\ lastCall' = NoCall
                /\ UNCHANGED <<pending_verifications, tasks, resolved>>
           ELSE IF opt = pending_verifications[u].correct_option_id
           THEN approve_user(tasks, self, u)
           ELSE reject_user(tasks, self, u, "incorrect answer")
    /\ UNCHANGED <<tracked, user_messages, ban_notifications, htest_enabled, fastout_enabled, now,
                   platform>>

\* ------------------------------------------------------ administrator press
\* What get_chat_member reports of the presser: a status, or TelegramAPIError
Statuses == {"creator", "administrator", "member", "restricted", "error"}

\* An is_admin that passes a failed role query
is_admin_lenient(status) == status \in {"creator", "administrator", "error"}

\* is_admin, once get_chat_member has returned
is_admin(status) == status \in {"creator", "administrator"}

\* handle_reaction up to its first await (the role query of is_admin).  The press is
\* on the control surface of the live challenge message m of chat c, whose buttons
\* carry the participant `target`.
handle_reaction(c, m, target) ==
    /\ Deliver("press", MaxPresses)
    /\ <<c, m, target>> \in polls
    /\ lastAct' = ActX("handle_reaction", target, c, m)
    /\ tasks' = Spawn(tasks, [BlankTask EXCEPT !.pc = "hr_is_admin", !.user = target,
                                                !.chat = c, !.mid = m])
    /\ lastCall' = Call("get_chat_member", c, 0)
    /\ UNCHANGED <<tracked, stores, htest_enabled, fastout_enabled, now, platform, resolved>>

\* handle_reaction while it is inside approve_user / reject_user
Caller(t) == [BlankTask EXCEPT !.chat = t.chat, !.via = "admin"]

\* get_chat_member returns: denial, "already resolved", or the resolution starts.
\* callback_data.action is read here, after the await.
HrIsAdmin(t) ==
    /\ t.pc = "hr_is_admin"
    /\ \E status \in Statuses, action \in {"approve", "reject"} :
         /\ lastAct' = [Act("HrIsAdmin", t.user, t.chat) EXCEPT !.status = status,
                                                                  !.action = action]
         /\ IF ~is_admin(status)
            THEN /\ tasks' = Add(Rm(tasks, t), [BlankTask EXCEPT !.pc = "hr_deny",
                                                                 !.chat = t.chat])
                 /\ lastCall' = Call("answer_callback", t.chat, 0)
                 /\ UNCHANGED <<pending_verifications, resolved>>
            ELSE IF ~Has(pending_verifications, t.user)
            THEN /\ tasks' = Add(Rm(tasks, t), [BlankTask EXCEPT !.pc = "hr_already",
                                                                 !.chat = t.chat,
                                                                 !.mid = t.mid])
                 /\ lastCall' = Call("answer_callback", t.chat, 0)
                 /\ UNCHANGED <<pending_verifications, resolved>>
            ELSE IF action = "approve"
            THEN approve_user(Rm(tasks, t), Caller(t), t.user)
            ELSE reject_user(Rm(tasks, t), Caller(t), t.user, "rejected by administrator")
    /\ UNCHANGED <<tracked, user_messages, ban_notifications, htest_enabled, fastout_enabled, now,
                   platform, evcount>>

\* callback.answer(denial) returns
HrDeny(t) ==
    /\ t.pc = "hr_deny"
    /\ lastAct' = NoAct
    /\ tasks' = Rm(tasks, t)
    /\ lastCall' = NoCall
    /\ UNCHANGED <<tracked, stores, htest_enabled, fastout_enabled, now, platform, resolved,
                   evcount>>

\* callback.answer("already resolved") returns: the control surface is stripped next
\* (the answer is outside the try, so its failure ends the handler)
HrAlready(t) ==
    /\ t.pc = "hr_already"
    /\ lastAct' = NoAct
    /\ \E ok \in BOOLEAN :
         IF ok
         THEN /\ tasks' = Add(Rm(tasks, t), [t EXCEPT !.pc = "hr_strip"])
              /\ lastCall' = Call("edit", t.chat, t.mid)
         ELSE /\ tasks' = Rm(tasks, t)
              /\ lastCall' = NoCall
    /\ UNCHANGED <<tracked, stores, htest_enabled, fastout_enabled, now, platform, resolved,
                   evcount>>

\* edit_reply_markup(None) returns; any failure is logged
HrStrip(t) ==
    /\ t.pc = "hr_strip"
    /\ lastAct' = NoAct
    /\ tasks' = Rm(tasks, t)
    /\ lastCall' = NoCall
    /\ \E ok \in BOOLEAN :
         polls' = IF ok THEN RemoveMessage(polls, t.chat, t.mid) ELSE polls
    /\ UNCHANGED <<tracked, stores, htest_enabled, fastout_enabled, now, perm, banned, nextMsg,
                   nextPoll, resolved, evcount>>

\* callback.answer after approve_user / reject_user returns
HrAnswer(t) ==
    /\ t.pc = "hr_answer"
    /\ lastAct' = NoAct
    /\ tasks' = Rm(tasks, t)
    /\ lastCall' = NoCall
    /\ UNCHANGED <<tracked, stores, htest_enabled, fastout_enabled, now, platform, resolved,
                   evcount>>

\* ------------------------------------------------------ message ledger
\* A ledger that puts the newest identifier first
AppendMessageFront(d, u, m) == Put(d, u, <<m>> \o (IF Has(d, u) THEN d[u] ELSE <<>>))

\* self.user_messages[user_id].append(message_id), creating the list if absent
AppendMessage(d, u, m) == Put(d, u, (IF Has(d, u) THEN d[u] ELSE <<>>) \o <<m>>)

\* A handle_member_left that is iterating over the list object stored for u sees
\* what is appended to it.
Alias(ts, u, m) ==
    LET f(t) == IF t.pc = "ml_delete" /\ t.user = u /\ t.attached
                THEN [t EXCEPT !.lst = @ \o <<m>>] ELSE t
    IN  MapTasks(ts, f)

\* del self.user_messages[u]: a handle_member_left still iterating keeps the list
\* object, which is no longer the ledger's
Detach(ts, u) ==
    LET f(t) == IF t.pc = "ml_delete" /\ t.user = u THEN [t EXCEPT !.attached = FALSE]
                ELSE t
    IN  MapTasks(ts, f)

\* The FastOut switch tested before the session
RouteFastoutFirst(u) ==
    IF u = NoUser THEN "ignore"
    ELSE IF ~fastout_enabled THEN "ignore"
    ELSE IF htest_enabled /\ Has(pending_verifications, u) THEN "delete"
    ELSE "track"

\* What handle_message_from_new_member does with a message of sender u
Route(u) ==
    IF u = NoUser THEN "ignore"
    ELSE IF htest_enabled /\ Has(pending_verifications, u) THEN "delete"
    ELSE IF ~fastout_enabled THEN "ignore"
    ELSE "track"

\* handle_message_from_new_member; m is the id the chat gives the message
handle_message_from_new_member(c, u) ==
    LET m == nextMsg[c] IN
    /\ Deliver("message", MaxMessages)
    /\ nextMsg' = [nextMsg EXCEPT ![c] = @ + 1]
    /\ lastAct' = ActX("handle_message_from_new_member", u, c, m)
    /\ IF Route(u) = "delete"
       THEN /\ tasks' = Spawn(tasks, [BlankTask EXCEPT !.pc = "msg_delete", !.chat = c,
                                                       !.mid = m])
            /\ lastCall' = Call("delete", c, m)
            /\ UNCHANGED <<user_messages, tracked>>
       ELSE IF Route(u) = "track"
       THEN /\ user_messages' = AppendMessage(user_messages, u, m)
            /\ tracked' = tracked \cup {<<c, u, m>>}
            /\ tasks' = Alias(tasks, u, m)
            /\ lastCall' = NoCall
       ELSE /\ lastCall' = NoCall
            /\ UNCHANGED <<tasks, user_messages, tracked>>
    /\ UNCHANGED <<pending_verifications, ban_notifications, htest_enabled,
                   fastout_enabled, now, perm, banned, polls, nextPoll, resolved>>

\* message.delete() returns; a failure is logged
MsgDelete(t) ==
    /\ t.pc = "msg_delete"
    /\ lastAct' = NoAct
    /\ tasks' = Rm(tasks, t)
    /\ lastCall' = NoCall
    /\ \E ok \in BOOLEAN :
         polls' = IF ok THEN RemoveMessage(polls, t.chat, t.mid) ELSE polls
    /\ UNCHANGED <<tracked, stores, htest_enabled, fastout_enabled, now, perm, banned, nextMsg,
                   nextPoll, resolved, evcount>>

\* handle_member_left up to its first await: the first delete_message of the loop
handle_member_left(c, u) ==
    /\ Deliver("left", MaxLeaves)
    /\ lastAct' = Act("handle_member_left", u, c)
    /\ IF fastout_enabled /\ Has(user_messages, u)
       THEN /\ tasks' = Spawn(tasks, [BlankTask EXCEPT !.pc = "ml_delete", !.user = u,
                                                       !.chat = c, !.idx = 1,
                                                       !.lst = user_messages[u],
                                                       !.attached = TRUE])
            /\ lastCall' = Call("delete", c, user_messages[u][1])
       ELSE /\ tasks' = tasks
            /\ lastCall' = NoCall
    /\ UNCHANGED <<tracked, stores, htest_enabled, fastout_enabled, now, platform, resolved>>

\* The entry left in the ledger
DelEntryKeeps(d, u) == d

\* del self.user_messages[user_id] (a KeyError changes nothing)
DelEntry(d, u) == Del(d, u)

\* delete_message of the loop returns (a failure is logged): the next id is
\* submitted, or the loop is over and the entry is deleted.  After a concurrent
\* handle_member_left deleted the entry, del raises KeyError unless the participant
\* has a new entry by then.
MlDelete(t) ==
    /\ t.pc = "ml_delete"
    /\ \E ok \in BOOLEAN :
         /\ lastAct' = [Ret("MlDelete", t.user, t.chat, ok) EXCEPT !.x = t.lst[t.idx]]
         /\ polls' = IF ok THEN RemoveMessage(polls, t.chat, t.lst[t.idx]) ELSE polls
    /\ IF t.idx < Len(t.lst)
       THEN /\ tasks' = Add(Rm(tasks, t), [t EXCEPT !.idx = @ + 1])
            /\ lastCall' = Call("delete", t.chat, t.lst[t.idx + 1])
            /\ UNCHANGED user_messages
       ELSE /\ user_messages' = DelEntry(user_messages, t.user)
            /\ tasks' = Detach(Rm(tasks, t), t.user)
            /\ lastCall' = NoCall
    /\ UNCHANGED <<tracked, pending_verifications, ban_notifications, htest_enabled,
                   fastout_enabled, now, perm, banned, nextMsg, nextPoll, resolved,
                   evcount>>

\* ------------------------------------------------------ mechanism toggles
ToggleArgs == {"on", "off", "none", "bad"}

\* toggle_htest / toggle_fastout -> toggle_mechanism, up to the role query
toggle_mechanism(c, mechanism) ==
    /\ Deliver("toggle", MaxToggles)
    /\ lastAct' = Act("toggle_mechanism", 0, c)
    /\ tasks' = Spawn(tasks, [BlankTask EXCEPT !.pc = "tg_is_admin", !.chat = c,
                                                !.action = mechanism])
    /\ lastCall' = Call("get_chat_member", c, 0)
    /\ UNCHANGED <<tracked, stores, htest_enabled, fastout_enabled, now, platform, resolved>>

\* get_chat_member returns: the switch is set when an administrator said on or off
\* (message.text is read here, after the await); every branch ends in one reply
TgIsAdmin(t) ==
    /\ t.pc = "tg_is_admin"
    /\ lastAct' = NoAct
    /\ \E status \in Statuses, arg \in ToggleArgs :
         LET set == is_admin(status) /\ arg \in {"on", "off"}
         IN  /\ htest_enabled' = IF set /\ t.action = "htest" THEN arg = "on"
                                  ELSE htest_enabled
             /\ fastout_enabled' = IF set /\ t.action # "htest" THEN arg = "on"
                                    ELSE fastout_enabled
    /\ tasks' = Add(Rm(tasks, t), [BlankTask EXCEPT !.pc = "tg_reply", !.chat = t.chat])
    /\ lastCall' = Call("reply", t.chat, 0)
    /\ UNCHANGED <<tracked, stores, now, platform, resolved, evcount>>

\* message.reply returns; a failure is logged
TgReply(t) ==
    /\ t.pc = "tg_reply"
    /\ lastAct' = NoAct
    /\ tasks' = Rm(tasks, t)
    /\ lastCall' = NoCall
    /\ \E ok \in BOOLEAN :
         nextMsg' = IF ok THEN [nextMsg EXCEPT ![t.chat] = @ + 1] ELSE nextMsg
    /\ UNCHANGED <<tracked, stores, htest_enabled, fastout_enabled, now, perm, banned, polls,
                   nextPoll, resolved, evcount>>

\* ------------------------------------------------------ the system
\* The updates of the chats CS about the participants US, and the coroutine steps
Joining(CS, US) ==
    \/ \E c \in CS, u \in US \cup {BotId} : handle_new_member(c, u)
    \/ \E t \in DOMAIN tasks : NmRestrict(t)
    \/ \E t \in DOMAIN tasks : NmSendPoll(t)

Answering(US) ==
    \E u \in US, pid \in 1..(nextPoll - 1), opt \in OptionIds :
        handle_poll_answer(u, pid, opt)

Pressing ==
    \/ \E q \in polls : handle_reaction(q[1], q[2], q[3])
    \/ \E t \in DOMAIN tasks : HrIsAdmin(t)
    \/ \E t \in DOMAIN tasks : HrDeny(t)
    \/ \E t \in DOMAIN tasks : HrAlready(t)
    \/ \E t \in DOMAIN tasks : HrStrip(t)
    \/ \E t \in DOMAIN tasks : HrAnswer(t)

Resolving ==
    \/ \E t \in DOMAIN tasks : verification_timeout_fire(t)
    \/ \E t \in DOMAIN tasks : ApRestrict(t)
    \/ \E t \in DOMAIN tasks : ApDelete(t)
    \/ \E t \in DOMAIN tasks : ApSend(t)
    \/ \E t \in DOMAIN tasks : RjBan(t)
    \/ \E t \in DOMAIN tasks : RjUnban(t)
    \/ \E t \in DOMAIN tasks : RjDelete(t)
    \/ \E t \in DOMAIN tasks : RjSend(t)
    \/ \E t \in DOMAIN tasks : remove_ban_notification(t)
    \/ \E t \in DOMAIN tasks : RbDelete(t)

Refreshing ==
    \/ \E t \in DOMAIN tasks : update_timer_display(t)
    \/ \E t \in DOMAIN tasks : RfEdit(t)

Tracking(CS, US) ==
    \/ \E c \in CS, u \in US \cup {NoUser} : handle_message_from_new_member(c, u)
    \/ \E c \in CS, u \in US : handle_member_left(c, u)
    \/ \E t \in DOMAIN tasks : MsgDelete(t)
    \/ \E t \in DOMAIN tasks : MlDelete(t)

Toggling(CS) ==
    \/ \E c \in CS, m \in {"htest", "fastout"} : toggle_mechanism(c, m)
    \/ \E t \in DOMAIN tasks : TgIsAdmin(t)
    \/ \E t \in DOMAIN tasks : TgReply(t)

Next ==
    \/ Joining({1}, {1})
    \/ Answering({1})
    \/ Pressing
    \/ Resolving
    \/ Refreshing
    \/ Tracking({1}, {1})
    \/ Toggling({1})
    \/ Tick

Spec == Init /\ [][Next]_vars

\* The verification sessions alone: joins, answers, presses and the timeout timer
NextSession ==
    \/ Joining({1}, {1})
    \/ Answering({1})
    \/ Pressing
    \/ Resolving
    \/ Tick

SpecSession == Init /\ [][NextSession]_vars

\* The sessions under the event loop's scheduling: a coroutine whose awaited call
\* has returned or whose sleep is over is resumed, and the clock advances
SpecFair ==
    /\ SpecSession
    /\ WF_vars(Tick)
    /\ WF_vars(Resolving)
    /\ WF_vars(\E t \in DOMAIN tasks : NmRestrict(t) \/ NmSendPoll(t))

\* The sessions, with approve_user also called on its own
NextAdmit ==
    \/ NextSession
    \/ \E u \in {1} : approve_user_call(u)

SpecAdmit == Init /\ [][NextAdmit]_vars

\* The message ledger, with the sessions and switches its handlers read
NextLedger ==
    \/ Joining({1}, {1})
    \/ Tracking({1}, {1})
    \/ Toggling({1})

SpecLedger == Init /\ [][NextLedger]_vars

\* The display refreshers, with the sessions they read
NextRefresh ==
    \/ Joining({1}, {1})
    \/ Answering({1})
    \/ Resolving
    \/ Refreshing
    \/ Tick

SpecRefresh == Init /\ [][NextRefresh]_vars

\* The message ledger of every participant in every chat, with no session stored
NextTrack ==
    \/ \E c \in Chats, u \in Participants \cup {NoUser} :
          handle_message_from_new_member(c, u)
    \/ \E c \in Chats, u \in Participants : handle_member_left(c, u)
    \/ \E t \in DOMAIN tasks : MlDelete(t)
    \/ Toggling({1})

SpecTrack == Init /\ [][NextTrack]_vars

\* The handlers that change the session store or the message ledger
NextStores ==
    \/ Joining({1}, {1})
    \/ Answering({1})
    \/ Resolving
    \/ Tracking({1}, {1})
    \/ Tick

SpecStores == Init /\ [][NextStores]_vars

\* One participant joining either chat, and the administrators' presses
NextChats ==
    \/ Joining(Chats, {1})
    \/ Pressing
    \/ Resolving
    \/ Tick

SpecChats == Init /\ [][NextChats]_vars

\* ====================================================================
\* The claims
\* ====================================================================
\* The task t took a step / a task t came to be, in the step at hand
Left(t) == CopiesIn(t, tasks') < CopiesIn(t, tasks)
Entered(t) == CopiesIn(t, tasks') > CopiesIn(t, tasks)

\* The step at hand is a resolution attempt: an answer is handled, an
\* administrator's press passes the privilege check, or a timeout timer fires
AnswerStep == lastAct'.name = "handle_poll_answer" /\ evcount'.answer # evcount.answer
PressStep == \E t \in DOMAIN tasks : t.pc = "hr_is_admin" /\ Left(t)
TimeoutStep == \E t \in DOMAIN tasks : t.pc = "vt_sleep" /\ Left(t)
Attempt == AnswerStep \/ (PressStep /\ is_admin(lastAct'.status)) \/ TimeoutStep

\* C1: At-most-one resolution.  A session (named by its poll id) is consumed by at
\* most one resolution, whatever the interleaving of answer, press and timeout; a
\* session is consumed only by a resolution attempt, which then starts exactly one
\* admit or reject sequence for it; and an attempt that consumes nothing has found
\* the session absent and issues no restrict, ban, unban, delete or send call and
\* changes neither the stores nor the chat.
C1_Step ==
    /\ \A p \in DOMAIN resolved' : resolved'[p] = 1
    /\ \A u \in DOMAIN pending_verifications' :
          ~Has(resolved', pending_verifications'[u].poll_id)
    /\ resolved' # resolved =>
          /\ Attempt
          /\ \E u \in DOMAIN pending_verifications :
                /\ resolved' = Bump(resolved, pending_verifications[u].poll_id)
                /\ ~Has(pending_verifications', u)
                /\ lastCall' \in {Call("restrict", pending_verifications[u].chat_id, u),
                                  Call("ban", pending_verifications[u].chat_id, u)}
                /\ \E t \in DOMAIN tasks' :
                      /\ Entered(t)
                      /\ t.pc \in {"ap_restrict", "rj_ban"}
                      /\ t.user = u
    /\ (Attempt /\ resolved' = resolved) =>
          /\ lastCall'.op \notin MutatingOps
          /\ UNCHANGED <<stores, platform>>
          /\ \A t \in DOMAIN tasks' : Entered(t) => t.pc \in {"hr_already", "hr_deny"}

C1_AtMostOneResolution == [][C1_Step]_vars

\* A press that passed the privilege check found the session gone while the
\* timeout's reject sequence for it is still in flight
C1_Witness ==
    /\ lastAct.name = "HrIsAdmin"
    /\ is_admin(lastAct.status)
    /\ lastCall.op = "answer_callback"
    /\ \E t \in DOMAIN tasks : t.pc = "hr_already"
    /\ \E t \in DOMAIN tasks :
          /\ t.pc \in {"rj_ban", "rj_unban", "rj_delete", "rj_send"}
          /\ t.reason = "verification window exceeded"
    /\ \E p \in DOMAIN resolved : resolved[p] = 1

\* No handler is between its platform calls: only sleeping timers are left
Quiet == \A t \in DOMAIN tasks : t.pc \in {"vt_sleep", "rf_sleep", "rb_sleep"}

\* C2: A session for a participant exists in the store if and only if the
\* participant is gated, that is restricted in a chat and awaiting resolution
\* (stated of the states in which no handler is in the middle of its calls).
C2_SessionIffGated ==
    Quiet => \A u \in Participants :
                Has(pending_verifications, u) <=>
                    \E c \in Chats : perm[c, u] = "restricted"

\* C3: The timeout path resolves a session only once the verification window
\* has passed since that session was created: when a timeout timer fires and
\* finds a session, the session's deadline has been reached.
C3_TimeoutOnlyAfterDeadline ==
    [][\A t \in DOMAIN tasks :
          (t.pc = "vt_sleep" /\ Left(t) /\ Has(pending_verifications, t.user)) =>
              now >= pending_verifications[t.user].deadline]_vars

\* The step at hand is handle_message_from_new_member
MessageStep ==
    /\ lastAct'.name = "handle_message_from_new_member"
    /\ evcount'.message # evcount.message

\* The message of the step at hand is submitted for deletion and not tracked
Suppressed ==
    /\ lastCall' = Call("delete", lastAct'.chat, lastAct'.x)
    /\ user_messages' = user_messages

\* C4 as claimed: a trackable message of a participant who has a session is
\* submitted for deletion and not appended to the ledger, in every state.
C4_SuppressedAlways ==
    [][(MessageStep /\ Has(pending_verifications, lastAct'.user)) => Suppressed]_vars

\* C4, amended: while the challenge mechanism (HTest) is enabled, a trackable
\* message of a participant who has a session is submitted for deletion and not
\* appended to the ledger, whether FastOut is enabled or not.
C4_SuppressedWhileHTest ==
    [][(MessageStep /\ Has(pending_verifications, lastAct'.user) /\ htest_enabled)
          => Suppressed]_vars

\* A gated participant's message was submitted for deletion with FastOut disabled
C4_Witness ==
    /\ lastAct.name = "handle_message_from_new_member"
    /\ Has(pending_verifications, lastAct.user)
    /\ htest_enabled
    /\ ~fastout_enabled
    /\ lastCall = Call("delete", lastAct.chat, lastAct.x)
    /\ user_messages = EmptyDict

\* C5: Ledger purge on departure.  A handle_member_left that finds an entry submits
\* the entry's first identifier; each time one of its deletions returns, failed or
\* not, it submits the next identifier of the entry, and after the last one it
\* ends, leaving no entry of the participant in the ledger.  So every identifier
\* is submitted once, in order, and a failure stops nothing.
C5_Step ==
    /\ (lastAct'.name = "handle_member_left" /\ evcount'.left # evcount.left
          /\ fastout_enabled /\ Has(user_messages, lastAct'.user)) =>
            /\ lastCall' = Call("delete", lastAct'.chat, user_messages[lastAct'.user][1])
            /\ \E t \in DOMAIN tasks' :
                  /\ Entered(t)
                  /\ t.pc = "ml_delete" /\ t.idx = 1
                  /\ t.user = lastAct'.user /\ t.chat = lastAct'.chat
                  /\ t.lst = user_messages[lastAct'.user]
    /\ lastAct'.name = "MlDelete" =>
          \E t \in DOMAIN tasks :
            /\ t.pc = "ml_delete" /\ Left(t)
            /\ t.user = lastAct'.user /\ t.chat = lastAct'.chat
            /\ t.lst[t.idx] = lastAct'.x
            /\ IF t.idx < Len(t.lst)
               THEN /\ lastCall' = Call("delete", t.chat, t.lst[t.idx + 1])
                    /\ Entered([t EXCEPT !.idx = @ + 1])
               ELSE /\ lastCall' = NoCall
                    /\ ~Has(user_messages', t.user)
    /\ \A t \in DOMAIN tasks' :
          t.pc = "ml_delete" =>
            /\ t.idx \in 1..Len(t.lst)
            /\ t.attached => /\ Has(user_messages', t.user)
                              /\ t.lst = user_messages'[t.user]

C5_LedgerPurge == [][C5_Step]_vars

\* The first deletion of a purge failed and the second identifier was submitted
C5_Witness ==
    /\ lastAct.name = "MlDelete"
    /\ lastAct.status = "error"
    /\ \E t \in DOMAIN tasks :
          /\ t.pc = "ml_delete" /\ t.idx = 2 /\ Len(t.lst) = 2
          /\ lastAct.x = t.lst[1]
          /\ lastCall = Call("delete", t.chat, t.lst[2])

\* The step at hand is a call of approve_user on its own
AdmitStep == lastAct'.name = "approve_user" /\ evcount'.admit # evcount.admit

\* C6: Idempotent admit.  A call of approve_user that finds the session removes it
\* and starts the admit side effects (first the restore of the default
\* permissions); after any call the participant has no session, so that the call
\* that follows finds none, issues no platform call and changes no store, no
\* task and nothing in the chat.  No session is admitted or rejected twice.
C6_Step ==
    /\ \A p \in DOMAIN resolved' : resolved'[p] = 1
    /\ AdmitStep =>
          /\ ~Has(pending_verifications', lastAct'.user)
          /\ IF Has(pending_verifications, lastAct'.user)
             THEN /\ lastCall' = Call("restrict",
                                      pending_verifications[lastAct'.user].chat_id,
                                      lastAct'.user)
                  /\ resolved' = Bump(resolved,
                                      pending_verifications[lastAct'.user].poll_id)
             ELSE /\ lastCall' = NoCall
                  /\ UNCHANGED <<stores, platform, tasks, resolved>>

C6_IdempotentAdmit == [][C6_Step]_vars

\* approve_user was called twice; the first call admitted the participant
\* (permissions restored, challenge deleted, notice posted), the second did nothing
C6_Witness ==
    /\ lastAct.name = "approve_user"
    /\ evcount.admit = 2 /\ evcount.join = 1
    /\ lastCall = NoCall
    /\ \A t \in DOMAIN tasks : t.via # "direct"
    /\ perm[1, 1] = "default"
    /\ polls = {}
    /\ nextMsg[1] = 3
    /\ \E p \in DOMAIN resolved : resolved[p] = 1

\* The session of the challenge p is in the store, and its deadline lies within
\* the time the model lets pass
Stored(p) ==
    \E u \in DOMAIN pending_verifications :
        /\ pending_verifications[u].poll_id = p
        /\ pending_verifications[u].deadline <= MaxTime

\* C7: Every session that is stored is eventually resolved: by an answer or an
\* administrator's press, or else by the timeout path, which rejects the
\* participant when the session's timer fires (the event loop runs every task
\* that is ready, and time passes).
C7_EventuallyResolved ==
    \A p \in 1..MaxJoins : Stored(p) ~> Has(resolved, p)

\* The step at hand is the return of restrict_chat_member or of send_poll to
\* the new-member handler t
NewMemberStep(t) == t.pc \in {"nm_restrict", "nm_send_poll"} /\ Left(t)

\* C8: No partial session.  When restrict_chat_member or send_poll fails in the
\* handling of a new member, the handler ends there: the session store is as it
\* was and no timeout timer and no display refresher is started.  A timeout timer
\* is started only in the step that stores the session it belongs to.
C8_Step ==
    /\ \A t \in DOMAIN tasks :
          (NewMemberStep(t) /\ lastAct'.status = "error") =>
              /\ pending_verifications' = pending_verifications
              /\ tasks' = Rm(tasks, t)
    /\ \A t \in DOMAIN tasks' :
          (Entered(t) /\ t.pc = "vt_sleep") =>
              /\ lastAct' = Ret("NmSendPoll", t.user, lastAct'.chat, TRUE)
              /\ Has(pending_verifications', t.user)
              /\ pending_verifications'[t.user].deadline = t.wake
              /\ pending_verifications'[t.user].poll_id = nextPoll

C8_NoPartialSession == [][C8_Step]_vars

\* send_poll failed after the restriction was applied: no session, no timer
C8_Witness ==
    /\ lastAct.name = "NmSendPoll"
    /\ lastAct.status = "error"
    /\ perm[lastAct.chat, lastAct.user] = "restricted"
    /\ pending_verifications = EmptyDict
    /\ tasks = EmptyBag

\* C9: Challenge-answer path.  An answer of a participant who has no session, or
\* whose poll id is not the session's, changes no store and no task and issues no
\* platform call.  An answer with the session's poll id removes the session and
\* starts the admit sequence if the chosen option is correct_option_id, and the
\* reject sequence with the reason "incorrect answer" if it is not.
C9_Step ==
    AnswerStep =>
        LET u == lastAct'.user
            pid == lastAct'.x
            opt == lastAct'.y
        IN  IF ~Has(pending_verifications, u) \/ pending_verifications[u].poll_id # pid
            THEN /\ lastCall' = NoCall
                 /\ UNCHANGED <<stores, platform, tasks, resolved>>
            ELSE LET vd == pending_verifications[u]
                 IN  /\ ~Has(pending_verifications', u)
                     /\ UNCHANGED <<user_messages, ban_notifications, platform>>
                     /\ resolved' = Bump(resolved, pid)
                     /\ IF opt = vd.correct_option_id
                        THEN /\ lastCall' = Call("restrict", vd.chat_id, u)
                             /\ \E t \in DOMAIN tasks' :
                                   Entered(t) /\ t.pc = "ap_restrict" /\ t.user = u
                        ELSE /\ lastCall' = Call("ban", vd.chat_id, u)
                             /\ \E t \in DOMAIN tasks' :
                                   /\ Entered(t) /\ t.pc = "rj_ban" /\ t.user = u
                                   /\ t.reason = "incorrect answer"

C9_AnswerPath == [][C9_Step]_vars

\* An answer to an earlier challenge of a participant who has a session was ignored
C9_Witness ==
    /\ lastAct.name = "handle_poll_answer"
    /\ Has(pending_verifications, lastAct.user)
    /\ pending_verifications[lastAct.user].poll_id # lastAct.x
    /\ lastCall = NoCall
    /\ resolved = EmptyDict

\* C10: Authorization.  When get_chat_member reports a presser who is neither
\* creator nor administrator, or fails, the press changes no store, no timer and
\* nothing in the chat, and issues no restrict, ban, unban, delete or send call:
\* the denial is returned to the presser, and the handler ends when it returns.
C10_Step ==
    /\ \A t \in DOMAIN tasks :
          (t.pc = "hr_is_admin" /\ Left(t)
              /\ lastAct'.status \notin {"creator", "administrator"}) =>
                /\ UNCHANGED <<stores, platform, resolved>>
                /\ lastCall' = Call("answer_callback", t.chat, 0)
                /\ tasks' = Add(Rm(tasks, t), [BlankTask EXCEPT !.pc = "hr_deny",
                                                                !.chat = t.chat])
    /\ \A t \in DOMAIN tasks :
          (t.pc = "hr_deny" /\ Left(t)) =>
                /\ UNCHANGED <<stores, platform, resolved>>
                /\ lastCall' = NoCall
                /\ tasks' = Rm(tasks, t)

C10_Authorization == [][C10_Step]_vars

\* The role query failed for a press on a participant who has a session: the
\* denial is on its way and the session and its timers are still there
C10_Witness ==
    /\ lastAct.name = "HrIsAdmin"
    /\ lastAct.status = "error"
    /\ Has(pending_verifications, lastAct.user)
    /\ lastCall.op = "answer_callback"
    /\ \E t \in DOMAIN tasks : t.pc = "hr_deny"
    /\ \E t \in DOMAIN tasks : t.pc = "vt_sleep" /\ t.user = lastAct.user

\* A press that passed the privilege check finds no session: the "already
\* resolved" acknowledgment is issued and nothing else happens
C11_Press ==
    \A t \in DOMAIN tasks :
        (t.pc = "hr_is_admin" /\ Left(t)
            /\ lastAct'.status \in {"creator", "administrator"}
            /\ ~Has(pending_verifications, t.user)) =>
              /\ lastCall' = Call("answer_callback", t.chat, 0)
              /\ UNCHANGED <<stores, platform, resolved>>
              /\ tasks' = Add(Rm(tasks, t), [BlankTask EXCEPT !.pc = "hr_already",
                                                              !.chat = t.chat,
                                                              !.mid = t.mid])

\* When the acknowledgment returns, the strip of the control surface is issued
C11_Ack ==
    \A t \in DOMAIN tasks :
        (t.pc = "hr_already" /\ Left(t)) =>
              /\ lastCall' = Call("edit", t.chat, t.mid)
              /\ UNCHANGED <<stores, platform, resolved>>
              /\ tasks' = Add(Rm(tasks, t), [t EXCEPT !.pc = "hr_strip"])

\* When the strip returns, failed or not, the handler ends: no store changes, no
\* permission or membership changes, no further call
C11_Strip ==
    \A t \in DOMAIN tasks :
        (t.pc = "hr_strip" /\ Left(t)) =>
              /\ lastCall' = NoCall
              /\ UNCHANGED <<stores, perm, banned, resolved>>
              /\ tasks' = Rm(tasks, t)

\* C11: An administrator's press on a participant without a session is answered
\* with "already resolved" and followed by the strip of the control surface, never
\* by admit or reject side effects; the strip's failure changes nothing and ends
\* the handler quietly.
C11_AlreadyResolved == [][C11_Press /\ C11_Ack /\ C11_Strip]_vars

\* C12: Kick, not ban.  A participant is banned from a chat only while the reject
\* that banned them is waiting for its unban call to return: once a reject has
\* finished, whatever calls failed, the participant is not left banned.
C12_KickNotBan ==
    \A c \in Chats, u \in Participants :
        banned[c, u] =>
            \E t \in DOMAIN tasks :
                t.pc = "rj_unban" /\ t.user = u /\ t.data.chat_id = c

\* The platform calls of an admit or a reject in progress
ResolutionPcs == {"ap_restrict", "ap_delete", "ap_send",
                  "rj_ban", "rj_unban", "rj_delete", "rj_send"}

\* No admit or reject that is at one of its platform calls has its session in
\* the store
C13_NoDangling ==
    \A t \in DOMAIN tasks' :
        t.pc \in ResolutionPcs =>
            ~(/\ Has(pending_verifications', t.user)
              /\ pending_verifications'[t.user].chat_id = t.data.chat_id
              /\ pending_verifications'[t.user].message_id = t.data.message_id)

\* The calls that set the participant's permissions and membership have had
\* their effect when they return: an admitted participant has the default
\* permissions, a rejected one is removed and not banned
C13_MembershipRight ==
    \A t \in DOMAIN tasks :
        /\ (t.pc = "ap_restrict" /\ Left(t)) => perm'[t.data.chat_id, t.user] = "default"
        /\ (t.pc = "rj_ban" /\ Left(t)) => perm'[t.data.chat_id, t.user] = "removed"
        /\ (t.pc = "rj_unban" /\ Left(t)) => ~banned'[t.data.chat_id, t.user]

\* C13: Admit and reject remove the session before their first platform call, so
\* a failing call never leaves the session in the store, and what a failure
\* leaves behind is cosmetic: never a participant in the wrong permission or
\* membership state.
C13_OnlyCosmetic == [][C13_NoDangling /\ C13_MembershipRight]_vars

\* The step at hand is handle_new_member
JoinStep == lastAct'.name = "handle_new_member" /\ evcount'.join # evcount.join

\* C14: New-member frame.  A new-member event that arrives while HTest is disabled,
\* or that is about the bot itself, changes no store, no task and nothing in the
\* chat and issues no call; any other starts one handler with the restriction.
\* When the restriction and then send_poll have succeeded, exactly one session is
\* stored, for that participant, and exactly one timeout timer and one display
\* refresher are started for them.
C14_Step ==
    /\ JoinStep =>
          IF ~htest_enabled \/ lastAct'.user = BotId
          THEN /\ lastCall' = NoCall
               /\ UNCHANGED <<stores, tasks, platform>>
          ELSE /\ lastCall' = Call("restrict", lastAct'.chat, lastAct'.user)
               /\ UNCHANGED <<stores, platform>>
               /\ tasks' = Add(tasks, [BlankTask EXCEPT !.pc = "nm_restrict",
                                                        !.user = lastAct'.user,
                                                        !.chat = lastAct'.chat])
    /\ \A t \in DOMAIN tasks :
          (t.pc = "nm_send_poll" /\ Left(t) /\ lastAct'.status = "ok") =>
              /\ DOMAIN pending_verifications' = DOMAIN pending_verifications \cup {t.user}
              /\ \A u \in DOMAIN pending_verifications \ {t.user} :
                    pending_verifications'[u] = pending_verifications[u]
              /\ pending_verifications'[t.user].chat_id = t.chat
              /\ pending_verifications'[t.user].user = t.user
              /\ pending_verifications'[t.user].deadline = now + verification_timeout
              /\ UNCHANGED <<user_messages, ban_notifications>>
              /\ LET new == tasks' (-) Rm(tasks, t)
                 IN  /\ Rm(tasks, t) \sqsubseteq tasks'
                     /\ BagCardinality(new) = 2
                     /\ \E v \in DOMAIN new :
                           /\ v.pc = "vt_sleep" /\ v.user = t.user
                           /\ v.wake = now + verification_timeout
                     /\ \E r \in DOMAIN new : r.pc = "rf_sleep" /\ r.user = t.user

C14_NewMemberFrame == [][C14_Step]_vars

\* A new-member event about a participant was ignored because HTest is disabled
C14_Witness ==
    /\ lastAct.name = "handle_new_member"
    /\ lastAct.user \in Participants
    /\ ~htest_enabled
    /\ lastCall = NoCall
    /\ tasks = EmptyBag
    /\ pending_verifications = EmptyDict
    /\ \A c \in Chats, u \in Participants : perm[c, u] = "default"

\* C15: The fields of a stored session are fixed at creation.  While a
\* participant has a session in the store, no step changes its deadline, its
\* correct_option_id, its poll_id or its message_id.
C15_FieldsFixed ==
    [][\A u \in DOMAIN pending_verifications :
          Has(pending_verifications', u) =>
              /\ pending_verifications'[u].deadline = pending_verifications[u].deadline
              /\ pending_verifications'[u].correct_option_id
                    = pending_verifications[u].correct_option_id
              /\ pending_verifications'[u].poll_id = pending_verifications[u].poll_id
              /\ pending_verifications'[u].message_id
                    = pending_verifications[u].message_id]_vars

\* The places at which a handler that creates a session, admits, rejects or
\* purges the ledger waits for one of its own platform calls to return
AfterOwnCall == {"nm_restrict", "nm_send_poll", "ml_delete"} \cup ResolutionPcs

\* The handler t is resumed in the step at hand (a purge's record also changes
\* when a message is appended to the list it iterates: that is not its step)
Resumed(t) ==
    /\ Left(t)
    /\ t.pc = "ml_delete" => lastAct'.name = "MlDelete"

\* C16 as claimed: store mutation before platform calls.  A handler that creates a session,
\* admits, rejects or purges the ledger changes the session store and the message
\* ledger only before its first platform call: no step taken at the return of one
\* of its own calls changes either.
C16_MutationBeforeCalls ==
    [][\A t \in DOMAIN tasks :
          (t.pc \in AfterOwnCall /\ Resumed(t)) =>
              UNCHANGED <<pending_verifications, user_messages>>]_vars

\* C16, amended: admit and reject remove the session before their first platform
\* call and change neither the session store nor the ledger afterwards.  Session
\* creation stores the session only when send_poll has returned (after both of
\* its platform calls), and the ledger purge deletes the entry only when its last
\* delete_message has returned; at the return of any other call of theirs neither
\* the session store nor the ledger changes.
C16_Step ==
    /\ C13_NoDangling
    /\ \A t \in DOMAIN tasks :
          Resumed(t) =>
            /\ t.pc \in ResolutionPcs \cup {"nm_restrict"} =>
                  UNCHANGED <<pending_verifications, user_messages>>
            /\ t.pc = "nm_send_poll" =>
                  /\ UNCHANGED user_messages
                  /\ IF lastAct'.status = "ok"
                     THEN /\ Has(pending_verifications', t.user)
                          /\ pending_verifications'[t.user].poll_id = nextPoll
                     ELSE UNCHANGED pending_verifications
            /\ t.pc = "ml_delete" =>
                  /\ UNCHANGED pending_verifications
                  /\ \/ UNCHANGED user_messages
                     \/ user_messages' = Del(user_messages, lastAct'.user)
    /\ lastAct'.name = "MlDelete" =>
          \E t \in DOMAIN tasks :
              /\ t.pc = "ml_delete" /\ Left(t) /\ t.user = lastAct'.user
              /\ IF t.idx < Len(t.lst)
                 THEN UNCHANGED user_messages
                 ELSE user_messages' = Del(user_messages, t.user)

C16_MutationOrder == [][C16_Step]_vars

\* A purge has deleted the ledger entry after its last delete_message returned
C16_Witness ==
    /\ lastAct.name = "MlDelete"
    /\ lastCall = NoCall
    /\ ~Has(user_messages, lastAct.user)
    /\ \E r \in tracked : r[2] = lastAct.user /\ r[3] = lastAct.x

\* The refreshers (update_timer_display), asleep or awaiting their edit
Refreshers == {t \in DOMAIN tasks : t.pc \in {"rf_sleep", "rf_edit"}}

\* C17: once the session a refresher was started for has been resolved, the
\* refresher issues at most one further countdown edit
C17_AtMostOneLateEdit ==
    \A t \in Refreshers : Has(resolved, t.own) => t.late <= 1

\* C17, the part that holds: a refresher that finds no session under its
\* participant's id, or no time remaining, ends without an edit
C17_Stops ==
    [][\A t \in DOMAIN tasks :
          (/\ t.pc = "rf_sleep" /\ Left(t)
           /\ \/ ~Has(pending_verifications, t.user)
              \/ pending_verifications[t.user].deadline - now <= 0)
          => /\ tasks' = Rm(tasks, t)
             /\ lastCall' = NoCall]_vars

\* The refresher whose edit returns in the step at hand
RefreshStep(t) == t.pc = "rf_edit" /\ Left(t) /\ lastAct'.name = "RfEdit"

\* C18: when the countdown edit fails with "message is not modified" the refresher
\* sleeps and goes on; on any other error it ends; either way it changes neither
\* store and resolves nothing
C18_Step ==
    \A t \in DOMAIN tasks :
        RefreshStep(t) =>
          /\ UNCHANGED <<stores, resolved, platform>>
          /\ lastCall' = NoCall
          /\ lastAct'.status = "not modified" =>
                tasks' = Add(Rm(tasks, t), [t EXCEPT !.pc = "rf_sleep",
                                                     !.wake = now + refresh_interval,
                                                     !.data = NoData])
          /\ lastAct'.status \in {"bad request", "api error"} => tasks' = Rm(tasks, t)

C18_EditFailure == [][C18_Step]_vars

\* A "not modified" failure was skipped: the refresher sleeps, the session is stored
C18_Witness ==
    /\ lastAct.name = "RfEdit"
    /\ lastAct.status = "not modified"
    /\ Has(pending_verifications, lastAct.user)
    /\ \E t \in Refreshers :
          /\ t.pc = "rf_sleep" /\ t.user = lastAct.user
          /\ t.wake = now + refresh_interval

\* Another error ended the refresher while the session is still stored
C18_Stopped ==
    /\ lastAct.name = "RfEdit"
    /\ lastAct.status = "api error"
    /\ Has(pending_verifications, lastAct.user)
    /\ Refreshers = {}

\* s is an initial part of r
IsPrefix(s, r) == Len(s) <= Len(r) /\ SubSeq(r, 1, Len(s)) = s

\* C19: a trackable message of a participant without a session is appended at the
\* end of that participant's entry (created if absent), no other entry and no
\* session changes; with FastOut off the ledger is left alone; an entry only
\* grows, in the order of arrival, until the purge deletes it
C19_Step ==
    /\ MessageStep =>
          LET u == lastAct'.user
              m == lastAct'.x
          IN  (u # NoUser /\ ~Has(pending_verifications, u)) =>
                /\ UNCHANGED pending_verifications
                /\ IF fastout_enabled
                   THEN /\ Has(user_messages', u)
                        /\ user_messages'[u] =
                              IF Has(user_messages, u) THEN Append(user_messages[u], m)
                              ELSE <<m>>
                        /\ \A v \in Participants \ {u} :
                              /\ Has(user_messages', v) = Has(user_messages, v)
                              /\ Has(user_messages, v) =>
                                    user_messages'[v] = user_messages[v]
                   ELSE UNCHANGED user_messages
    /\ \A v \in Participants :
          Has(user_messages, v) =>
             \/ /\ Has(user_messages', v)
                /\ IsPrefix(user_messages[v], user_messages'[v])
             \/ /\ lastAct'.name = "MlDelete"
                /\ lastAct'.user = v
                /\ ~Has(user_messages', v)

C19_Ignored ==
    /\ lastAct.name = "handle_message_from_new_member"
    /\ lastAct.user # NoUser
    /\ ~fastout_enabled
    /\ evcount.message = 2
    /\ \A v \in Participants : ~Has(user_messages, v)

\* The delete_message calls of the purge: the one handle_member_left issues before
\* its first await, and the one issued when the previous one has returned
PurgeCall ==
    /\ lastAct'.name \in {"handle_member_left", "MlDelete"}
    /\ lastCall'.op = "delete"

\* C20: every (chat, message id) the purge submits for deletion was tracked for
\* the departing participant in that chat
C20_PurgeOwnChat ==
    [][PurgeCall =>
          <<lastCall'.chat, lastAct'.user, lastCall'.arg>> \in tracked]_vars

\* C20, the part that holds: every id submitted was tracked for the participant
\* in some chat
C20_PurgeTracked ==
    [][PurgeCall =>
          \E c \in Chats : <<c, lastAct'.user, lastCall'.arg>> \in tracked]_vars

\* The delayed deletions (remove_ban_notification), asleep or awaiting their call
NoticeTimers(ts) == {t \in DOMAIN ts : t.pc \in {"rb_sleep", "rb_delete"}}

\* How many of them there are
NoticeTimerCount(ts) ==
    BagCardinality([t \in NoticeTimers(ts) |-> ts[t]])

\* C21: a reject that posted its removal notice starts exactly one delayed
\* deletion of that notice, a reject that did not starts none; when its sleep of
\* ban_notification_time is over the deletion is attempted whatever the session
\* store holds; its failure changes no session and no ledger entry
C21_Step ==
    /\ \A t \in DOMAIN tasks :
          (t.pc = "rj_send" /\ Left(t)) =>
             LET c == t.data.chat_id
                 timer == [BlankTask EXCEPT !.pc = "rb_sleep", !.chat = c,
                                            !.mid = nextMsg[c],
                                            !.wake = now + ban_notification_time]
             IN  IF nextMsg' # nextMsg
                 THEN /\ \A r \in NoticeTimers(tasks) : ~(r.chat = c /\ r.mid = nextMsg[c])
                      /\ CopiesIn(timer, tasks') = 1
                      /\ NoticeTimerCount(tasks') = NoticeTimerCount(tasks) + 1
                 ELSE NoticeTimerCount(tasks') = NoticeTimerCount(tasks)
    /\ NoticeTimerCount(tasks') > NoticeTimerCount(tasks) =>
          \E t \in DOMAIN tasks : t.pc = "rj_send" /\ Left(t) /\ nextMsg' # nextMsg
    /\ \A t \in DOMAIN tasks :
          (t.pc = "rb_sleep" /\ Left(t)) =>
             /\ now >= t.wake
             /\ lastCall' = Call("delete", t.chat, t.mid)
             /\ tasks' = Add(Rm(tasks, t), [t EXCEPT !.pc = "rb_delete"])
             /\ UNCHANGED <<pending_verifications, user_messages, resolved>>
    /\ \A t \in DOMAIN tasks :
          (t.pc = "rb_delete" /\ Left(t)) =>
             /\ tasks' = Rm(tasks, t)
             /\ lastCall' = NoCall
             /\ UNCHANGED <<pending_verifications, user_messages, resolved, platform>>

\* The notice m of chat c has a delayed deletion whose sleep ends within MaxTime
NoticeScheduled(c, m) ==
    \E t \in DOMAIN tasks :
        t.pc = "rb_sleep" /\ t.chat = c /\ t.mid = m /\ t.wake <= MaxTime

\* The deletion of the notice m of chat c has been submitted
NoticeDeletion(c, m) ==
    /\ lastCall = Call("delete", c, m)
    /\ \E t \in DOMAIN tasks : t.pc = "rb_delete" /\ t.chat = c /\ t.mid = m

C21_NoticeRemoval ==
    /\ [][C21_Step]_vars
    /\ \A c \in Chats, m \in 1..(2 * MaxEvents) :
          NoticeScheduled(c, m) ~> NoticeDeletion(c, m)

\* The deletion of a notice is submitted while the rejected participant, who
\* joined again, has a session in the store
C21_Witness ==
    /\ \E t \in DOMAIN tasks :
          /\ t.pc = "rb_delete"
          /\ lastCall = Call("delete", t.chat, t.mid)
          /\ now >= ban_notification_time
    /\ \E u \in Participants : Has(pending_verifications, u)

\* A reject whose notice could not be posted is over and nothing is scheduled
C21_NotPosted ==
    /\ resolved # EmptyDict
    /\ now = 0
    /\ \A t \in DOMAIN tasks : t.pc \in {"vt_sleep", "rf_sleep"}
    /\ \A c \in Chats : ~Has(ban_notifications, c)
    /\ \E c \in Chats, u \in Participants : perm[c, u] = "removed"

\* The press whose role query returns in the step at hand starts a resolution
PressResolves ==
    /\ lastAct'.name = "HrIsAdmin"
    /\ resolved' # resolved

\* C22: a press authorised by the presser's role in the chat of the pressed
\* message resolves only a session of that chat
C22_PressOwnChat ==
    [][PressResolves =>
          pending_verifications[lastAct'.user].chat_id = lastAct'.chat]_vars

\* C22, the part that holds: a press resolves only when the role query, made in
\* the chat of the pressed message, reported an administrator
C22_PressAuthorised ==
    [][PressResolves => is_admin(lastAct'.status)]_vars

\* How many tasks of participant u are at one of the pcs
TimerCount(u, pcs) ==
    BagCardinality([t \in {r \in DOMAIN tasks : r.user = u /\ r.pc \in pcs} |-> tasks[t]])

\* C23: a participant with a session has at most one timeout timer and at most
\* one countdown refresher that can act on it
C23_OneTimerEach ==
    \A u \in Participants :
        Has(pending_verifications, u) =>
            /\ TimerCount(u, {"vt_sleep"}) <= 1
            /\ TimerCount(u, {"rf_sleep", "rf_edit"}) <= 1

\* C23, the part that holds: every session stored got exactly one timer of each
\* kind when it was stored
C23_OnePerSession ==
    [][\A t \in DOMAIN tasks :
          (t.pc = "nm_send_poll" /\ Left(t) /\ Has(pending_verifications', t.user)
           /\ pending_verifications'[t.user].poll_id = nextPoll) =>
             /\ TimerCount(t.user, {"vt_sleep"})' = TimerCount(t.user, {"vt_sleep"}) + 1
             /\ TimerCount(t.user, {"rf_sleep", "rf_edit"})' =
                   TimerCount(t.user, {"rf_sleep", "rf_edit"}) + 1]_vars

====
